---- MODULE Spec2Model ----
(* A model of package smsc (src/client.go): client construction (New), the  *)
(* request side of Client.Send (message, options, Values, PostForm) and its *)
(* response side (ReadAll, json.Unmarshal into MetaResult, the Error/Result *)
(* choice, the deferred Body.Close).                                        *)
(*                                                                          *)
(* src/client.go holds two revisions of the package one after the other:    *)
(* lines 1-215 (Result.Count is tagged "count") and lines 217-356           *)
(* (Result.Count is tagged "cnt", Result has Phones).  The variable rev     *)
(* says which one is built.  message, Values and WithCost exist only in the *)
(* first revision's text and are modelled from there for both.              *)
(*                                                                          *)
(* Go values: a pointer or an error is None (nil) or Some(x); an error x is *)
(* a record with its kind and, for the types of this package, its fields.   *)
EXTENDS Integers, Sequences, FiniteSets, TLC

VARIABLES
    rev,        \* which revision of the source is built: 1 or 2
    pc,         \* position of the single caller
    cfg,        \* the Config given to New
    newRet,     \* what New returned: [client, err]
    client,     \* the *Client in use (None before New succeeds)
    args,       \* Send's parameters: [text, phones, opts]
    i,          \* index of the next option of the range loop
    m,          \* Send's local *message
    posted,     \* the (url, form) handed to http.PostForm, None before it
    body,       \* resp.Body: [content, readErr, eof, closed], None without resp
    deferred,   \* Send's stack of deferred calls
    b,          \* bytes ReadAll returned
    parsed,     \* json.Unmarshal has been called in this Send
    mr,         \* Send's local *MetaResult
    err,        \* Send's local err
    panicking,  \* a run-time panic is unwinding Send
    ret         \* what Send returned: [result, err]; None while running

vars == <<rev, pc, cfg, newRet, client, args, i, m, posted, body, deferred,
          b, parsed, mr, err, panicking, ret>>

None == <<>>
Some(x) == <<x>>
Get(p) == p[1]

---------------------------------------------------------------------------
(* Bounds of the request side.                                             *)
MaxPhones == 2
MaxOpts == 2

SeqsUpTo(S, n) == UNION {[1..k -> S] : k \in 0..n}

---------------------------------------------------------------------------
(* Package constants.                                                      *)
DefaultURL == "https://smsc.ru/sys/send.php"

ErrNoLoginPassword == [kind |-> "errorString", msg |-> "smsc: empty login or password"]

HttpDefaultClient == "http.DefaultClient"

formatJSON == 3

CostOmit == 0
CostWithoutSend == 1
CostCount == 2
CostCountBalance == 3

Costs == {CostOmit, CostWithoutSend, CostCount, CostCountBalance}

---------------------------------------------------------------------------
(* New                                                                     *)

NewAndInsteadOfOr(c) ==
    LET url == IF c.URL = "" THEN DefaultURL ELSE c.URL
    IN  IF c.Login = "" /\ c.Password = ""
        THEN [client |-> None, err |-> Some(ErrNoLoginPassword)]
        ELSE [client |-> Some([url |-> url, login |-> c.Login,
                               password |-> c.Password,
                               http |-> IF c.Client = None
                                        THEN HttpDefaultClient
                                        ELSE Get(c.Client)]),
              err |-> None]

New(c) ==
    LET url == IF c.URL = "" THEN DefaultURL ELSE c.URL
    IN  IF c.Login = "" \/ c.Password = ""
        THEN [client |-> None, err |-> Some(ErrNoLoginPassword)]
        ELSE [client |-> Some([url |-> url, login |-> c.Login,
                               password |-> c.Password,
                               http |-> IF c.Client = None
                                        THEN HttpDefaultClient
                                        ELSE Get(c.Client)]),
              err |-> None]

Configs ==
    [URL : {"", "http://gw.test/send"}, Login : {"", "user"},
     Password : {"", "secret"}, Client : {None, Some("custom")}]

---------------------------------------------------------------------------
(* message, options, Values                                                *)

\* An Opt is the closure WithCost(c) returns; it is modelled by its c.
WithCostFirstWins(c, msg) == IF msg.Cost = 0 THEN [msg EXCEPT !.Cost = c] ELSE msg

WithCost(c, msg) == [msg EXCEPT !.Cost = c]

NewMessage(cl, text, phones) ==
    [Login |-> cl.login, Password |-> cl.password, Text |-> text,
     Phones |-> phones, Format |-> formatJSON, Cost |-> 0]

Validate(msg) == None

\* strconv.FormatInt(n, 10)
FormatInt(n) == ToString(n)

\* url.Values.Set: the key's values are replaced by the single value s.
Set(v, k, s) == [x \in (DOMAIN v) \cup {k} |-> IF x = k THEN <<s>> ELSE v[x]]

ValuesFirstPhoneOnly(msg) ==
    LET v0 == [login |-> <<msg.Login>>, psw |-> <<msg.Password>>,
               mes |-> <<msg.Text>>,
               phones |-> IF msg.Phones = <<>> THEN <<>> ELSE <<Head(msg.Phones)>>]
        v1 == IF msg.Format # 0 THEN Set(v0, "fmt", FormatInt(msg.Format)) ELSE v0
        v2 == IF msg.Cost # 0 THEN Set(v1, "cost", FormatInt(msg.Cost)) ELSE v1
    IN  v2

Values(msg) ==
    LET v0 == [login |-> <<msg.Login>>, psw |-> <<msg.Password>>,
               mes |-> <<msg.Text>>, phones |-> msg.Phones]
        v1 == IF msg.Format # 0 THEN Set(v0, "fmt", FormatInt(msg.Format)) ELSE v0
        v2 == IF msg.Cost # 0 THEN Set(v1, "cost", FormatInt(msg.Cost)) ELSE v1
    IN  v2

\* wrapErr: the package prefix before the cause's text.
wrapErrUnwrapped(e) == e

wrapErr(e) ==
    IF e = None THEN e
    ELSE Some([kind |-> "wrapped", msg |-> "smsc: " \o Get(e).msg])

---------------------------------------------------------------------------
(* JSON texts, by what encoding/json sees in them.  A response body is      *)
(* text with a syntax error, or one JSON value: null, an array, a number,   *)
(* or an object.  An object gives each key of JsonKeys a value or Absent;   *)
(* keys are in the folded form the decoder matches them in, and the decoder *)
(* meets them in the order KeyOrder.                                        *)

Absent == [t |-> "absent"]
JNull == [t |-> "null"]
JNum(n) == [t |-> "num", n |-> n]
JStr(s) == [t |-> "str", s |-> s]
JArr(a) == [t |-> "arr", a |-> a]

KeyOrder == <<"id", "count", "cnt", "cost", "balance", "phones", "error_code", "error", "foo">>

JsonKeys == {KeyOrder[k] : k \in DOMAIN KeyOrder}

Present(o) == {k \in JsonKeys : o[k] # Absent}

\* The Go name of a JSON value's kind, as UnmarshalTypeError prints it.
KindName(val) ==
    CASE val.t = "num" -> "number"
      [] val.t = "str" -> "string"
      [] val.t = "arr" -> "array"
      [] OTHER -> val.t

---------------------------------------------------------------------------
(* Result, Error, MetaResult                                               *)

\* The json tag of Result.Count in the revision built.
CountKey(r) == IF r = 1 THEN "count" ELSE "cnt"

ResultFields(r) ==
    {[name |-> "id", owner |-> "Result", field |-> "ID", type |-> "int"],
     [name |-> CountKey(r), owner |-> "Result", field |-> "Count", type |-> "int"],
     [name |-> "cost", owner |-> "Result", field |-> "Cost", type |-> "*string"],
     [name |-> "balance", owner |-> "Result", field |-> "Balance", type |-> "*string"]}
    \cup (IF r = 2
          THEN {[name |-> "phones", owner |-> "Result", field |-> "Phones", type |-> "[]Phone"]}
          ELSE {})

ErrorFields ==
    {[name |-> "error_code", owner |-> "Error", field |-> "Code", type |-> "int"],
     [name |-> "error", owner |-> "Error", field |-> "Desc", type |-> "string"],
     [name |-> "id", owner |-> "Error", field |-> "ID", type |-> "*int"]}

ZeroResult(r) ==
    IF r = 1
    THEN [ID |-> 0, Count |-> 0, Cost |-> None, Balance |-> None]
    ELSE [ID |-> 0, Count |-> 0, Cost |-> None, Balance |-> None, Phones |-> None]

ZeroError == [kind |-> "Error", Code |-> 0, Desc |-> "", ID |-> None]

Zero(owner, r) == IF owner = "Result" THEN ZeroResult(r) ELSE ZeroError

\* MetaResult embeds *Result and *Error: the fields encoding/json sees are
\* those of both, all at depth 1 and all tagged.  A name two of them carry
\* at the same depth with the same taggedness is dropped (dominantField);
\* the result is None for a name no field is chosen for.
MetaField(r, name) ==
    LET c == {f \in ResultFields(r) \cup ErrorFields : f.name = name}
    IN  IF Cardinality(c) = 1 THEN Some(CHOOSE f \in c : TRUE) ELSE None

TypeError(val, f) ==
    [kind |-> "json.UnmarshalTypeError",
     msg |-> "json: cannot unmarshal " \o KindName(val) \o " into Go struct field MetaResult."
             \o f.name \o " of type " \o f.type]

\* Storing one JSON value in a field holding old: [v, err].  null leaves a
\* non-pointer alone and makes a pointer or slice nil; a value of the wrong
\* kind is an UnmarshalTypeError, after a nil pointer was already allocated.
Store(f, old, val) ==
    CASE val.t = "null" ->
            [v |-> IF f.type \in {"int", "string"} THEN old ELSE None, err |-> None]
      [] f.type = "int" ->
            IF val.t = "num" THEN [v |-> val.n, err |-> None]
            ELSE [v |-> old, err |-> Some(TypeError(val, f))]
      [] f.type = "string" ->
            IF val.t = "str" THEN [v |-> val.s, err |-> None]
            ELSE [v |-> old, err |-> Some(TypeError(val, f))]
      [] f.type = "*int" ->
            IF val.t = "num" THEN [v |-> Some(val.n), err |-> None]
            ELSE [v |-> IF old = None THEN Some(0) ELSE old, err |-> Some(TypeError(val, f))]
      [] f.type = "*string" ->
            IF val.t = "str" THEN [v |-> Some(val.s), err |-> None]
            ELSE [v |-> IF old = None THEN Some("") ELSE old, err |-> Some(TypeError(val, f))]
      [] OTHER ->
            IF val.t = "arr" THEN [v |-> val.a, err |-> None]
            ELSE [v |-> old, err |-> Some(TypeError(val, f))]

\* One member of the object: an unknown key is skipped; for a known one the
\* embedded pointer on the way to the field is allocated when nil, then the
\* value is stored.  The first error is the one kept (saveError).
DecodeMember(r, st, key, val) ==
    LET f == MetaField(r, key)
    IN  IF f = None THEN st
        ELSE LET fld == Get(f)
                 s0 == IF st.mr[fld.owner] = None THEN Zero(fld.owner, r)
                       ELSE Get(st.mr[fld.owner])
                 got == Store(fld, s0[fld.field], val)
                 s1 == [s0 EXCEPT ![fld.field] = got.v]
             IN  [mr |-> [st.mr EXCEPT ![fld.owner] = Some(s1)],
                  err |-> IF st.err = None THEN got.err ELSE st.err]

RECURSIVE DecodeObject(_, _, _, _)
DecodeObject(r, o, k, st) ==
    IF k > Len(KeyOrder) THEN st
    ELSE DecodeObject(r, o, k + 1,
                      IF o[KeyOrder[k]] = Absent THEN st
                      ELSE DecodeMember(r, st, KeyOrder[k], o[KeyOrder[k]]))

EmptyMeta == [Result |-> None, Error |-> None]

\* json.Unmarshal(b, &mr) with mr a nil *MetaResult: [mr, err].
Unmarshal(r, text) ==
    CASE text.kind = "syntax" ->
            [mr |-> None, err |-> Some([kind |-> "json.SyntaxError", msg |-> text.why])]
      [] text.kind = "null" -> [mr |-> None, err |-> None]
      [] text.kind = "object" ->
            LET st == DecodeObject(r, text.o, 1, [mr |-> EmptyMeta, err |-> None])
            IN  [mr |-> Some(st.mr), err |-> st.err]
      [] OTHER ->
            [mr |-> Some(EmptyMeta),
             err |-> Some([kind |-> "json.UnmarshalTypeError",
                           msg |-> "json: cannot unmarshal " \o text.kind
                                   \o " into Go value of type smsc.MetaResult"])]

\* Error.Error()
ErrorString(e) ==
    "ERROR = " \o ToString(e.Code) \o " (" \o e.Desc \o ")"
    \o (IF e.ID # None THEN ", ID - " \o ToString(Get(e.ID)) ELSE "")

\* Result.String()
ResultString(res) ==
    "OK - " \o ToString(res.Count) \o " SMS, ID - " \o ToString(res.ID)

---------------------------------------------------------------------------
(* Inputs                                                                  *)

Texts == {"", "hi"}

PhoneNumbers == {"79001112233", "79004445566"}

\* Calls of the request-side specification: every phone list up to
\* MaxPhones and every option list up to MaxOpts.
CallsForm ==
    [text : Texts, phones : SeqsUpTo(PhoneNumbers, MaxPhones),
     opts : SeqsUpTo(Costs, MaxOpts)]

\* Calls of the response-side specification.
CallsDecode ==
    [text : {"hi"}, phones : {<<>>, <<"79001112233">>},
     opts : {<<>>, <<CostCount>>}]

ConfigsForm ==
    [URL : {""}, Login : {"", "user", "admin"},
     Password : {"", "secret"}, Client : {None}]

Obj(id, count, cnt, cost, balance, phones, code, desc, foo) ==
    [id |-> id, count |-> count, cnt |-> cnt, cost |-> cost, balance |-> balance,
     phones |-> phones, error_code |-> code, error |-> desc, foo |-> foo]

ObjectsMain ==
    {Obj(id, count, cnt, cost, balance, Absent, code, desc, Absent) :
        id \in {Absent, JNull, JNum(5), JNum(42)},
        count \in {Absent, JNum(2)},
        cnt \in {Absent, JNum(2)},
        cost \in {Absent, JNull, JStr("1.00")},
        balance \in {Absent, JStr("99.00")},
        code \in {Absent, JNull, JNum(3)},
        desc \in {Absent, JStr("bad login")}}

PhoneDetail ==
    [Phone |-> "79001112233", Mccmnc |-> "25001", Cost |-> "1.00",
     Status |-> None, Error |-> None]

ObjectsSpecial ==
    {Obj(Absent, Absent, Absent, Absent, Absent, Absent, Absent, Absent, JNum(1)),
     Obj(JNum(5), JStr("x"), JStr("x"), Absent, Absent, Absent, Absent, Absent, Absent),
     Obj(Absent, Absent, Absent, Absent, Absent, Absent, JStr("3"), JStr("bad login"), Absent),
     Obj(JStr("5"), JNum(2), JNum(2), Absent, Absent, Absent, Absent, Absent, Absent),
     Obj(Absent, Absent, Absent, Absent, Absent, Absent, JNum(0), JStr("x"), Absent),
     Obj(JNum(42), Absent, Absent, Absent, Absent, Absent, JNum(9), JStr("x"), Absent),
     Obj(JNum(5), JNum(2), JNum(2), JStr("1.00"), Absent, JArr(<<PhoneDetail>>),
         Absent, Absent, Absent),
     Obj(Absent, Absent, Absent, Absent, Absent, JArr(<<>>), Absent, Absent, Absent)}

NonObjects ==
    {[kind |-> "syntax", why |-> "unexpected end of JSON input"],
     [kind |-> "syntax", why |-> "invalid character '<' looking for beginning of value"],
     [kind |-> "null"], [kind |-> "array"], [kind |-> "number"]}

Texts2Json(objs) == {[kind |-> "object", o |-> o] : o \in objs}

BodiesAll == Texts2Json(ObjectsMain \cup ObjectsSpecial) \cup NonObjects

BodiesFew ==
    Texts2Json({Obj(Absent, Absent, Absent, Absent, Absent, Absent, Absent, Absent, Absent),
                Obj(JNum(5), JNum(2), JNum(2), JStr("1.00"), JStr("99.00"), Absent,
                    Absent, Absent, Absent),
                Obj(JNull, Absent, Absent, Absent, Absent, Absent, JNum(3),
                    JStr("bad login"), Absent)})
    \cup {[kind |-> "syntax", why |-> "unexpected end of JSON input"], [kind |-> "null"]}

TransportErrs ==
    {[kind |-> "url.Error", msg |-> "Post: dial tcp 127.0.0.1:80: connect: connection refused"],
     [kind |-> "url.Error", msg |-> "Post: context deadline exceeded"]}

ReadErrs == {[kind |-> "errorString", msg |-> "unexpected EOF"]}

\* What PostForm can come back with: an error, or a response whose body
\* carries content and reads to its end or fails with readErr.
Outcomes(bodies) ==
    [err : {Some(e) : e \in TransportErrs}]
    \cup [err : {None}, content : bodies,
          readErr : {None} \cup {Some(e) : e \in ReadErrs}]

---------------------------------------------------------------------------
(* The caller: New, then Send calls one after the other.                   *)

NoArgs == [text |-> "", phones |-> <<>>, opts |-> <<>>]
NoMessage == [Login |-> "", Password |-> "", Text |-> "", Phones |-> <<>>,
              Format |-> 0, Cost |-> 0]

Locals ==
    /\ args = NoArgs /\ i = 1 /\ m = NoMessage /\ posted = None
    /\ body = None /\ deferred = <<>> /\ b = None /\ parsed = FALSE
    /\ mr = None /\ err = None /\ panicking = FALSE /\ ret = None

InitWith(configs) ==
    /\ rev \in {1, 2}
    /\ cfg \in configs
    /\ pc = "start"
    /\ newRet = None
    /\ client = None
    /\ Locals

Init == InitWith(Configs)

InitForm == InitWith(ConfigsForm)

CallNew ==
    /\ pc = "start"
    /\ newRet' = Some(New(cfg))
    /\ client' = New(cfg).client
    /\ pc' = IF New(cfg).err = None THEN "idle" ELSE "failed"
    /\ UNCHANGED <<rev, cfg, args, i, m, posted, body, deferred, b, parsed, mr,
                   err, panicking, ret>>

\* Send's entry: the message is built from the client and the arguments.
SendCall(calls) ==
    /\ pc = "idle"
    /\ \E a \in calls :
          /\ args' = a
          /\ m' = NewMessage(Get(client), a.text, a.phones)
    /\ i' = 1
    /\ pc' = "opts"
    /\ UNCHANGED <<rev, cfg, newRet, client, posted, body, deferred, b, parsed,
                   mr, err, panicking, ret>>

\* One turn of "for _, opt := range opts { opt(m) }".
ApplyOpt ==
    /\ pc = "opts"
    /\ i <= Len(args.opts)
    /\ m' = WithCost(args.opts[i], m)
    /\ i' = i + 1
    /\ UNCHANGED <<rev, pc, cfg, newRet, client, args, posted, body, deferred, b,
                   parsed, mr, err, panicking, ret>>

\* The loop is over; m.Validate().
CallValidate ==
    /\ pc = "opts"
    /\ i > Len(args.opts)
    /\ err' = Validate(m)
    /\ IF Validate(m) # None
       THEN /\ ret' = Some([result |-> None, err |-> Validate(m)])
            /\ pc' = "exit"
       ELSE /\ ret' = ret
            /\ pc' = "post"
    /\ UNCHANGED <<rev, cfg, newRet, client, args, i, m, posted, body, deferred,
                   b, parsed, mr, panicking>>

\* defer f()
DeferDropped(stack, f) == stack

Defer(stack, f) == <<f>> \o stack

\* c.http.PostForm(c.url, m.Values()), and on a response the defer of
\* resp.Body.Close().
PostForm(outcomes) ==
    /\ pc = "post"
    /\ posted' = Some([url |-> Get(client).url, form |-> Values(m)])
    /\ \E out \in outcomes :
          /\ err' = out.err
          /\ IF out.err # None
             THEN /\ ret' = Some([result |-> None, err |-> wrapErr(out.err)])
                  /\ pc' = "exit"
                  /\ UNCHANGED <<body, deferred>>
             ELSE /\ body' = Some([content |-> out.content, readErr |-> out.readErr,
                                   eof |-> FALSE, closed |-> FALSE])
                  /\ deferred' = Defer(deferred, "resp.Body.Close")
                  /\ pc' = "read"
                  /\ ret' = ret
    /\ UNCHANGED <<rev, cfg, newRet, client, args, i, m, b, parsed, mr, panicking>>

\* ioutil.ReadAll(resp.Body): the whole content at the end of the body, or
\* the read's error.
ReadAll ==
    /\ pc = "read"
    /\ err' = Get(body).readErr
    /\ IF Get(body).readErr # None
       THEN /\ ret' = Some([result |-> None, err |-> wrapErr(Get(body).readErr)])
            /\ pc' = "exit"
            /\ UNCHANGED <<b, body>>
       ELSE /\ b' = Some(Get(body).content)
            /\ body' = Some([Get(body) EXCEPT !.eof = TRUE])
            /\ pc' = "decode"
            /\ ret' = ret
    /\ UNCHANGED <<rev, cfg, newRet, client, args, i, m, posted, deferred, parsed,
                   mr, panicking>>

\* json.Unmarshal(b, &mr)
CallUnmarshal ==
    /\ pc = "decode"
    /\ parsed' = TRUE
    /\ LET u == Unmarshal(rev, Get(b))
       IN  /\ mr' = u.mr
           /\ err' = u.err
           /\ IF u.err # None
              THEN /\ ret' = Some([result |-> None, err |-> wrapErr(u.err)])
                   /\ pc' = "exit"
              ELSE /\ ret' = ret
                   /\ pc' = "check"
    /\ UNCHANGED <<rev, cfg, newRet, client, args, i, m, posted, body, deferred,
                   b, panicking>>

\* "if mr.Error != nil { return nil, mr.Error }; return mr.Result, nil" for
\* a non-nil mr.
PickByCode(meta) ==
    IF meta.Error # None /\ Get(meta.Error).Code # 0
    THEN [result |-> None, err |-> meta.Error]
    ELSE [result |-> meta.Result, err |-> None]

Pick(meta) ==
    IF meta.Error # None
    THEN [result |-> None, err |-> meta.Error]
    ELSE [result |-> meta.Result, err |-> None]

\* The two last statements of Send; mr.Error of a nil mr is a nil pointer
\* dereference, a run-time panic.
CheckError ==
    /\ pc = "check"
    /\ IF mr = None
       THEN /\ panicking' = TRUE
            /\ ret' = ret
       ELSE /\ ret' = Some(Pick(Get(mr)))
            /\ panicking' = panicking
    /\ pc' = "exit"
    /\ UNCHANGED <<rev, cfg, newRet, client, args, i, m, posted, body, deferred,
                   b, parsed, mr, err>>

\* On the way out, by return or by panic, the deferred calls run.
RunDeferred ==
    /\ pc = "exit"
    /\ deferred # <<>>
    /\ body' = Some([Get(body) EXCEPT !.closed = TRUE])
    /\ deferred' = Tail(deferred)
    /\ UNCHANGED <<rev, pc, cfg, newRet, client, args, i, m, posted, b, parsed,
                   mr, err, panicking, ret>>

\* Send is left: the caller has the pair, or the panic goes on up.
Leave ==
    /\ pc = "exit"
    /\ deferred = <<>>
    /\ pc' = IF panicking THEN "panicked" ELSE "returned"
    /\ UNCHANGED <<rev, cfg, newRet, client, args, i, m, posted, body, deferred,
                   b, parsed, mr, err, panicking, ret>>

\* The caller is ready for its next Send on the same client.
Again ==
    /\ pc = "returned"
    /\ pc' = "idle"
    /\ args' = NoArgs /\ i' = 1 /\ m' = NoMessage /\ posted' = None
    /\ body' = None /\ deferred' = <<>> /\ b' = None /\ parsed' = FALSE
    /\ mr' = None /\ err' = None /\ panicking' = FALSE /\ ret' = None
    /\ UNCHANGED <<rev, cfg, newRet, client>>

Next ==
    \/ CallNew
    \/ SendCall(CallsDecode)
    \/ ApplyOpt
    \/ CallValidate
    \/ PostForm(Outcomes(BodiesAll))
    \/ ReadAll
    \/ CallUnmarshal
    \/ CheckError
    \/ RunDeferred
    \/ Leave
    \/ Again

Spec == Init /\ [][Next]_vars

NextForm ==
    \/ CallNew
    \/ SendCall(CallsForm)
    \/ ApplyOpt
    \/ CallValidate
    \/ PostForm(Outcomes(BodiesFew))
    \/ ReadAll
    \/ CallUnmarshal
    \/ CheckError
    \/ RunDeferred
    \/ Leave
    \/ Again

SpecForm == InitForm /\ [][NextForm]_vars

---------------------------------------------------------------------------
(* What the claims speak of.                                               *)

Returned == pc = "returned"

HasResponse == body # None

\* The body was read to its end and is a JSON object.
ObjectBody == HasResponse /\ b # None /\ Get(b).kind = "object"

\* json.Unmarshal ran and reported no error.
Decoded == parsed /\ err = None

Wrapped(text) == Some([kind |-> "wrapped", msg |-> "smsc: " \o text])

\* The keys that reach a field of Result and of nothing else.
ResultOnlyKeys(r) ==
    {CountKey(r), "cost", "balance"} \cup (IF r = 2 THEN {"phones"} ELSE {})

\* The decimal text of a cost mode.
CostText(c) ==
    CASE c = CostWithoutSend -> "1"
      [] c = CostCount -> "2"
      [] c = CostCountBalance -> "3"
      [] OTHER -> "0"

\* The *string a Result holds for an optional string member.
OptString(val) == IF val.t = "str" THEN Some(val.s) ELSE None

---------------------------------------------------------------------------
(* C1: every Send that returns gives exactly one of a non-nil Result and a  *)
(* non-nil error, never (nil, nil) and never both.                          *)
(* Fails: a decoded object with no key of Result and none of Error, such    *)
(* as {}, leaves both embedded pointers nil and Send returns (nil, nil).    *)
C1_ExactlyOne ==
    Returned => (Get(ret).result = None) # (Get(ret).err = None)

(* C2: Send never panics: for every transport outcome and every body it     *)
(* ends by returning a pair.                                                *)
(* Fails: for the body null, Unmarshal leaves mr nil without an error and   *)
(* mr.Error dereferences it.                                                *)
C2_NeverPanics ==
    ~panicking /\ pc # "panicked"

(* C3, as claimed: after a successful decode of an object, Send returns a   *)
(* structured Error and a nil Result if error_code was present and          *)
(* otherwise a Result with a nil error; a body carrying only the "error"    *)
(* key yields the Result.  (That the Result is populated is left out here:  *)
(* it is C1's matter.)                                                      *)
C3_ErrorIffCode ==
    (Returned /\ ObjectBody /\ Decoded) =>
        IF Get(b).o["error_code"] # Absent
        THEN Get(ret).result = None /\ Get(ret).err # None
        ELSE Get(ret).err = None

(* C3, amended: after a successful decode of an object, Send returns a      *)
(* structured Error and a nil Result exactly when the object carried the    *)
(* error_code key or the error key, whatever success members it has;        *)
(* otherwise it returns a nil error and the decoded Result, which is        *)
(* non-nil exactly when the object carried a key of Result alone.           *)
C3_ErrorIffErrorKey ==
    (Returned /\ ObjectBody /\ Decoded) =>
        LET o == Get(b).o
        IN  IF o["error_code"] # Absent \/ o["error"] # Absent
            THEN /\ Get(ret).result = None
                 /\ Get(ret).err # None
                 /\ Get(Get(ret).err).kind = "Error"
            ELSE /\ Get(ret).err = None
                 /\ (Get(ret).result # None) <=> (Present(o) \cap ResultOnlyKeys(rev) # {})

\* A body with a success member and only the "error" key has yielded the Error.
C3_Witness ==
    /\ Returned /\ ObjectBody /\ Decoded
    /\ Get(b).o["error_code"] = Absent
    /\ Get(b).o["error"] # Absent
    /\ Get(b).o[CountKey(rev)] # Absent
    /\ Get(ret).err # None
    /\ Get(ret).result = None

\* A success body: id and the revision's count key are numbers, cost and
\* balance are strings or missing, and there is no member of Error.
SuccessBody ==
    /\ ObjectBody
    /\ LET o == Get(b).o
       IN  /\ o["id"].t = "num"
           /\ o[CountKey(rev)].t = "num"
           /\ o["cost"].t \in {"absent", "str"}
           /\ o["balance"].t \in {"absent", "str"}
           /\ o["error_code"] = Absent
           /\ o["error"] = Absent
           /\ o["phones"].t \in {"absent", "arr"}

(* C4: for every success body Send returns a nil error and a Result whose   *)
(* ID, Count, Cost and Balance are the body's id, count key, cost, balance. *)
(* Fails: Result.ID and Error.ID share the key "id" at the same depth of    *)
(* MetaResult, so the decoder drops the key and ID stays 0.                 *)
C4_SuccessFields ==
    (Returned /\ SuccessBody) =>
        LET o == Get(b).o
        IN  /\ Get(ret).err = None
            /\ Get(ret).result # None
            /\ Get(Get(ret).result).ID = o["id"].n
            /\ Get(Get(ret).result).Count = o[CountKey(rev)].n
            /\ Get(Get(ret).result).Cost = OptString(o["cost"])
            /\ Get(Get(ret).result).Balance = OptString(o["balance"])

\* An error body: error_code a number, error a string, id a number, null or
\* missing.
ErrorBody ==
    /\ ObjectBody
    /\ Decoded
    /\ Get(b).o["error_code"].t = "num"
    /\ Get(b).o["error"].t = "str"
    /\ Get(b).o["id"].t \in {"absent", "null", "num"}

(* C5: for every error body with error_code c and error d, Send returns an  *)
(* Error with Code c and Desc d whose id is present exactly when the body's *)
(* id is non-null, and whose text is "ERROR = c (d)" followed by ", ID - n" *)
(* exactly when the body carried a non-null id n.                           *)
(* Fails: the key "id" is dropped (see C4), so Error.ID is always nil.      *)
C5_ErrorFields ==
    (Returned /\ ErrorBody) =>
        LET o == Get(b).o
            e == Get(Get(ret).err)
        IN  /\ Get(ret).err # None
            /\ e.Code = o["error_code"].n
            /\ e.Desc = o["error"].s
            /\ (e.ID # None) <=> (o["id"].t = "num")
            /\ ErrorString(e) =
                 "ERROR = " \o ToString(o["error_code"].n) \o " (" \o o["error"].s \o ")"
                 \o (IF o["id"].t = "num" THEN ", ID - " \o ToString(o["id"].n) ELSE "")

(* C6: when the POST fails in the transport, the body cannot be read, or    *)
(* the body does not decode, Send returns a nil Result and an error whose   *)
(* text is "smsc: " followed by the cause's text; nothing is parsed after a *)
(* transport or read failure.                                               *)
C6_WrappedFailure ==
    Returned =>
        /\ (posted # None /\ ~HasResponse) =>
              /\ err \in {Some(e) : e \in TransportErrs}
              /\ Get(ret) = [result |-> None, err |-> Wrapped(Get(err).msg)]
              /\ ~parsed /\ b = None
        /\ (HasResponse /\ Get(body).readErr # None) =>
              /\ Get(ret) = [result |-> None, err |-> Wrapped(Get(Get(body).readErr).msg)]
              /\ ~parsed /\ b = None
        /\ (HasResponse /\ b # None /\ Get(b).kind = "syntax") =>
              Get(ret) = [result |-> None, err |-> Wrapped(Get(b).why)]
        /\ (parsed /\ err # None) =>
              Get(ret) = [result |-> None, err |-> Wrapped(Get(err).msg)]

\* A refused connection has come back to the caller.
C6_Witness ==
    /\ Returned
    /\ posted # None
    /\ ~HasResponse
    /\ Get(ret).result = None
    /\ Get(ret).err =
         Wrapped("Post: dial tcp 127.0.0.1:80: connect: connection refused")

(* C7: New succeeds (a client, a nil error) if and only if Login and        *)
(* Password are both non-empty; otherwise it returns no client and          *)
(* ErrNoLoginPassword, whatever URL and Client are, and nothing is posted.  *)
C7_NewNeedsCredentials ==
    newRet # None =>
        /\ (Get(newRet).client # None /\ Get(newRet).err = None)
              <=> (cfg.Login # "" /\ cfg.Password # "")
        /\ (cfg.Login = "" \/ cfg.Password = "") =>
              /\ Get(newRet) = [client |-> None, err |-> Some(ErrNoLoginPassword)]
              /\ client = None
              /\ posted = None
              /\ pc = "failed"

\* New has refused a config with a login, a URL and a transport but no password.
C7_Witness ==
    /\ newRet # None
    /\ cfg.Login # "" /\ cfg.Password = ""
    /\ cfg.URL # "" /\ cfg.Client # None
    /\ Get(newRet).client = None

(* C8: the cost field of the posted form is that of the last cost option    *)
(* alone: absent exactly when no cost option was given or the last one is   *)
(* CostOmit, and otherwise present with the one value of the last mode.     *)
C8_LastCostWins ==
    posted # None =>
        LET form == Get(posted).form
            n == Len(args.opts)
        IN  IF n = 0 \/ args.opts[n] = CostOmit
            THEN "cost" \notin DOMAIN form
            ELSE "cost" \in DOMAIN form /\ form["cost"] = <<CostText(args.opts[n])>>

\* Two different cost options, the first not CostOmit, have been posted.
C8_Witness ==
    /\ posted # None
    /\ Len(args.opts) = 2
    /\ args.opts[1] # CostOmit
    /\ args.opts[1] # args.opts[2]
    /\ args.opts[2] # CostOmit

(* C9: the posted form has login and psw equal to the client's credentials, *)
(* mes equal to the text and one phones entry per input phone, in input     *)
(* order (none for an empty list), whatever the options.                    *)
C9_FormFields ==
    posted # None =>
        LET form == Get(posted).form
        IN  /\ {"login", "psw", "mes", "phones"} \subseteq DOMAIN form
            /\ form["login"] = <<Get(client).login>>
            /\ form["psw"] = <<Get(client).password>>
            /\ Get(client).login = cfg.Login
            /\ Get(client).password = cfg.Password
            /\ form["mes"] = <<args.text>>
            /\ form["phones"] = args.phones

\* Two different phones and an option have been posted.
C9_Witness ==
    /\ posted # None
    /\ Len(args.phones) = 2
    /\ args.phones[1] # args.phones[2]
    /\ Len(args.opts) > 0
    /\ args.opts[1] # CostOmit
    /\ Get(posted).form["phones"] = args.phones

(* C10: once the POST has returned a response, its body is closed when Send *)
(* is left, on every way out, and a body that could be read is closed only  *)
(* after it was read to its end.                                            *)
C10_BodyClosed ==
    HasResponse =>
        /\ pc \in {"returned", "panicked"} => Get(body).closed
        /\ (Get(body).closed /\ Get(body).readErr = None) => Get(body).eof

\* A body that did not decode was read to its end and closed.
C10_Witness ==
    /\ Returned
    /\ HasResponse
    /\ parsed /\ err # None
    /\ Get(body).eof /\ Get(body).closed

====
